---- MODULE Spec2Model ----
(***************************************************************************)
(* Browserbot (services/browserbot/main.py): the FastAPI service that      *)
(* serialises browser-use Agent runs behind one asyncio lock and tracks    *)
(* background find_trends tasks in four module-level dictionaries.         *)
(*                                                                         *)
(* The service runs on one asyncio event loop, so the code between two     *)
(* awaits is one atomic step.  The suspension points are: the gap between  *)
(* the /run response and the start of its background job, the wait for     *)
(* the automation lock, and the Agent call (agent.run()).                  *)
(***************************************************************************)
EXTENDS Integers, Sequences, FiniteSets, TLC

\* ---------------------------------------------------------------- bounds
MaxJobs == 2            \* POST /run submissions that reach a job runner
MaxStops == 1           \* accepted POST /stop and POST /stop-all requests
MaxTrends == 2          \* items in an Agent's structured output

\* --------------------------------------------------------- program constants
VisitedPrefixLen == 100   \* text[:100] in the "Visited" progress line
NarrationLimit == 150     \* len(text) < 150 narration threshold

Jobs == 1..MaxJobs

\* An id string is the uuid of a job (its number) followed by a number of
\* "_result" suffixes; the requests considered carry a uuid or a uuid with
\* one suffix.  The uuid of a job is issued only if the job is find_trends.
Uuids == 1..MaxJobs
Ids == Uuids \X {0, 1}

TaskKey(j) == <<j, 0>>
\* f"{task_id}_result"
ResultKey(id) == <<id[1], id[2] + 1>>

SyncIntents == {"collect_amazon_products", "generate_personas"}
Intents == SyncIntents \cup {"find_trends"}

\* ------------------------------------------------------------ log entries
\* A progress entry is a text line, identified by its leading emoji, its
\* wording and the number it interpolates, or (under a "_result" key) the
\* result payload dict.
Line(prefix, text, arg) == [prefix |-> prefix, text |-> text, arg |-> arg]
PayloadEntry(p) == [prefix |-> "dict", payload |-> p]

\* str.startswith("✓") on an entry; a dict has no such attribute.
IsStr(e) == e.prefix # "dict"
startswith_check(e) == e.prefix = "check"

\* -------------------------------------------------------------- Agent I/O
\* Action-trace texts: whether the text mentions http/www, and its length.
UrlText == [url |-> TRUE, len |-> 120]
ShortText == [url |-> FALSE, len |-> 20]
LongText == [url |-> FALSE, len |-> 200]

\* Structured items are pydantic models; item i of a result is Model(i).
Model(i) == [obj |-> "model", id |-> i]
model_dump(m) == [obj |-> "dict", id |-> m.id]
\* (variant: the dumped items collected back to front)
DumpAllReversed(ms) == [i \in 1..Len(ms) |-> model_dump(ms[Len(ms) + 1 - i])]

DumpAll(ms) == [i \in 1..Len(ms) |-> model_dump(ms[i])]

Items(n) == [i \in 1..n |-> Model(i)]

\* What agent.run() hands back: structured_output (or None) and the trace.
\* The runs considered: no structured output and an empty trace; a
\* structured output without items; a structured output with MaxTrends
\* items, recommended searches and a trace with a text of each kind.
AgentResults ==
    { [structured |-> FALSE, items |-> <<>>, searches |-> <<>>, trace |-> <<>>],
      [structured |-> TRUE, items |-> <<>>, searches |-> <<>>,
       trace |-> <<ShortText>>],
      [structured |-> TRUE, items |-> Items(MaxTrends), searches |-> <<"q">>,
       trace |-> <<UrlText, ShortText, LongText>>] }

VARIABLES
    automation_lock,    \* asyncio.Lock._locked
    lock_waiters,       \* asyncio.Lock._waiters, in arrival order
    lock_woken,         \* the first waiter's future has been given its result
    task_progress,      \* _task_progress: key -> list of entries
    task_data,          \* _task_data: key -> collected data
    task_cancelled,     \* _task_cancelled: key -> flag
    running_agents,     \* keys of _running_agents
    kind,               \* intent of each submitted job
    pc,                 \* where each job's coroutine is suspended
    outcome,            \* how each job's Agent call ended
    stop_in_flight,     \* tasks with an accepted stop request during their Agent call
    nstops,             \* accepted stop requests so far
    resp                \* the HTTP response sent last

vars == <<automation_lock, lock_waiters, lock_woken, task_progress, task_data,
          task_cancelled, running_agents, kind, pc, outcome, stop_in_flight,
          nstops, resp>>

\* ------------------------------------------------------------- responses
\* Every response has its endpoint, the id in its path and its HTTP status;
\* a 200 response also has the fields of the endpoint's body.
Response(op, id, status) == [op |-> op, id |-> id, status |-> status]

NoId == <<0, 0>>

\* ---------------------------------------------------------- dict helpers
Has(d, k) == k \in DOMAIN d
Put(d, k, v) == [x \in DOMAIN d \cup {k} |-> IF x = k THEN v ELSE d[x]]
Del(d, k) == [x \in DOMAIN d \ {k} |-> d[x]]
AppendTo(d, k, e) == [d EXCEPT ![k] = Append(@, e)]
Last(s) == s[Len(s)]

\* ------------------------------------------------------ asyncio.Lock
LockState == [locked |-> automation_lock, waiters |-> lock_waiters,
              woken |-> lock_woken]

\* (variant: acquire() that looks at the queue but not at the holder)
LockFreeIgnoresHolder(L) == L.waiters = <<>>

\* acquire() takes the lock without suspending only when it is free and no
\* waiter is queued; otherwise the caller queues behind the others.
LockFree(L) == ~L.locked /\ L.waiters = <<>>
take(L) == [L EXCEPT !.locked = TRUE]
enqueue(L, j) == [L EXCEPT !.waiters = Append(@, j)]

\* (variant: a waiter resuming without having been woken by a release)
CanWakeUnwoken(L, j) == L.waiters # <<>> /\ Head(L.waiters) = j

\* the woken waiter resumes inside acquire(): leaves the queue, takes the lock
CanWake(L, j) == L.waiters # <<>> /\ Head(L.waiters) = j /\ L.woken
wake(L) == [locked |-> TRUE, waiters |-> Tail(L.waiters), woken |-> FALSE]

\* (variant: an exit path that leaves without releasing)
releaseKeepsLocked(L) == L

\* (variant: a release that unlocks without waking the first waiter)
releaseNoWake(L) == [locked |-> FALSE, waiters |-> L.waiters, woken |-> FALSE]

\* release(): unlock and give the first waiter's future its result.
release(L) == [locked |-> FALSE, waiters |-> L.waiters,
               woken |-> L.waiters # <<>>]

SetLock(L) ==
    /\ automation_lock' = L.locked
    /\ lock_waiters' = L.waiters
    /\ lock_woken' = L.woken

\* ------------------------------------------------- _run_trend_finder
EmptyData == [trends |-> <<>>, recommended_searches |-> <<>>,
              actions |-> <<>>, pages_visited |-> <<>>]

\* Lines 379-414: everything before `await agent.run()`.
StartLog ==
    << Line("sync", "Initializing browser automation", 0),
       Line("globe", "Connected to Chrome browser", 0),
       Line("robot", "AI agent started", 0),
       Line("search", "Searching Google for recent product trends", 0) >>

Min(a, b) == IF a < b THEN a ELSE b

\* Lines 421-437: stream the action trace into the log and the data.
RECURSIVE StreamActions(_, _, _)
StreamActions(log, data, trace) ==
    IF trace = <<>> THEN [log |-> log, data |-> data]
    ELSE LET text == Head(trace)
             d1 == [data EXCEPT !.actions = Append(@, text)]
         IN  IF text.len = 0 THEN StreamActions(log, data, Tail(trace))
             ELSE IF text.url
             THEN StreamActions(
                      Append(log, Line("globe", "Visited", Min(text.len, VisitedPrefixLen))),
                      [d1 EXCEPT !.pages_visited = Append(@, text)],
                      Tail(trace))
             ELSE IF text.len < NarrationLimit
             THEN StreamActions(Append(log, Line("thought", "narration", text.len)),
                                d1, Tail(trace))
             ELSE StreamActions(log, d1, Tail(trace))

\* Lines 440-443: one line and one data item per trend, numbered from 1.
RECURSIVE StreamTrends(_, _, _, _)
StreamTrends(log, data, trends, i) ==
    IF i > Len(trends) THEN [log |-> log, data |-> data]
    ELSE StreamTrends(Append(log, Line("sparkle", "Trend", i)),
                      [data EXCEPT !.trends = Append(@, model_dump(trends[i]))],
                      trends, i + 1)

\* Lines 445-447
StreamSearches(ld, r) ==
    IF r.structured /\ r.searches # <<>>
    THEN [log |-> Append(ld.log, Line("target", "Generated Amazon search queries",
                                      Len(r.searches))),
          data |-> [ld.data EXCEPT !.recommended_searches = r.searches]]
    ELSE ld

\* (variant: the closing line written without its check mark)
FinalLineNoCheck(r) == Line("thought", "Research complete", 0)

\* Lines 449-453
FinalLine(r) ==
    IF r.structured /\ r.items # <<>>
    THEN Line("check", "Research complete! Found product opportunities", Len(r.items))
    ELSE Line("check", "Research complete", 0)

\* Lines 418-453 for a task: the log and data after agent.run() returned r.
TrendFinderStream(log, data, r) ==
    LET a == StreamActions(log, data, r.trace)
        t == IF r.structured /\ r.items # <<>>
             THEN StreamTrends(a.log, a.data, r.items, 1)
             ELSE a
        q == StreamSearches(t, r)
    IN  [log |-> Append(q.log, FinalLine(r)), data |-> q.data]

\* Lines 455-468 (and 360-375, 504-517): the payload of a returned Agent call.
NoResultsStatus(intent) ==
    CASE intent = "collect_amazon_products" -> "no_products"
      [] intent = "generate_personas" -> "no_personas"
      [] OTHER -> "no_trends"

Payload(intent, r) ==
    [status |-> IF r.structured /\ r.items # <<>> THEN "completed"
                ELSE NoResultsStatus(intent),
     items |-> IF r.structured /\ r.items # <<>> THEN DumpAll(r.items) ELSE <<>>,
     recommended_searches |-> IF intent = "find_trends" /\ r.structured
                              THEN r.searches ELSE <<>>,
     summary |-> IF r.structured THEN "summary" ELSE "None",
     actions |-> SelectSeq(r.trace, LAMBDA t : t.len > 0)]

\* dict.get(key, False)
get(d, k) == IF Has(d, k) THEN d[k] ELSE FALSE

\* ------------------------------------------ _run_trend_finder_background
\* Lines 545-552 and 379-416, entered with the lock held (state L): the
\* pre-start check, then _run_trend_finder up to `await agent.run()`.
TrendSection(j, L, cancelled) ==
    LET k == TaskKey(j) IN
    IF get(cancelled, k)
    THEN /\ task_progress' =
              IF Has(task_progress, k)
              THEN AppendTo(task_progress, k, Line("check", "Cancelled before start", 0))
              ELSE task_progress
         /\ SetLock(release(L))
         /\ running_agents' = running_agents \ {k}
         /\ task_cancelled' = Del(cancelled, k)
         /\ pc' = [pc EXCEPT ![j] = "done"]
         /\ outcome' = [outcome EXCEPT ![j] = "skipped"]
         /\ UNCHANGED task_data
    ELSE /\ task_progress' = Put(task_progress, k, StartLog)
         /\ task_data' = Put(task_data, k, EmptyData)
         /\ running_agents' = running_agents \cup {k}
         /\ SetLock(L)
         /\ task_cancelled' = cancelled
         /\ pc' = [pc EXCEPT ![j] = "agent"]
         /\ UNCHANGED outcome

\* Lines 541-545: the background job starts after the /run response was sent.
BackgroundStart(j) ==
    /\ pc[j] = "scheduled"
    /\ LET cancelled == Put(task_cancelled, TaskKey(j), FALSE) IN
       IF LockFree(LockState)
       THEN TrendSection(j, take(LockState), cancelled)
       ELSE /\ SetLock(enqueue(LockState, j))
            /\ task_cancelled' = cancelled
            /\ pc' = [pc EXCEPT ![j] = "waiting"]
            /\ UNCHANGED <<task_progress, task_data, running_agents, outcome>>
    /\ UNCHANGED <<kind, stop_in_flight, nstops, resp>>

\* A job queued on the lock is woken by the release of the holder.
LockResume(j) ==
    /\ pc[j] = "waiting"
    /\ CanWake(LockState, j)
    /\ IF kind[j] = "find_trends"
       THEN TrendSection(j, wake(LockState), task_cancelled)
       ELSE /\ SetLock(wake(LockState))
            /\ pc' = [pc EXCEPT ![j] = "agent"]
            /\ UNCHANGED <<task_progress, task_data, task_cancelled,
                           running_agents, outcome>>
    /\ UNCHANGED <<kind, stop_in_flight, nstops, resp>>

\* (variants: the result stored whatever the flag says; the test inverted)
StoreResultAlways(progress, cancelled, k, payload) ==
    Put(progress, ResultKey(k), <<PayloadEntry(payload)>>)

StoreResultInverted(progress, cancelled, k, payload) ==
    IF get(cancelled, k)
    THEN Put(progress, ResultKey(k), <<PayloadEntry(payload)>>)
    ELSE progress

\* Lines 554-557: the result is stored unless the flag is set.
StoreResult(progress, cancelled, k, payload) ==
    IF ~get(cancelled, k)
    THEN Put(progress, ResultKey(k), <<PayloadEntry(payload)>>)
    ELSE progress

\* agent.run() returns r: lines 418-468 and 554-566 for a background job,
\* lines 578/587 for a synchronous request.
AgentReturn(j, r) ==
    /\ pc[j] = "agent"
    /\ IF kind[j] = "find_trends"
       THEN LET k == TaskKey(j)
                s == TrendFinderStream(task_progress[k], task_data[k], r)
                progress == [task_progress EXCEPT ![k] = s.log]
            IN  /\ task_progress' =
                       StoreResult(progress, task_cancelled, k, Payload(kind[j], r))
                /\ task_data' = [task_data EXCEPT ![k] = s.data]
                /\ running_agents' = running_agents \ {k}
                /\ task_cancelled' = Del(task_cancelled, k)
                /\ UNCHANGED resp
       ELSE /\ resp' = [op |-> "run", id |-> NoId, status |-> 200,
                        payload |-> Payload(kind[j], r)]
            /\ UNCHANGED <<task_progress, task_data, running_agents, task_cancelled>>
    /\ SetLock(release(LockState))
    /\ pc' = [pc EXCEPT ![j] = "done"]
    /\ outcome' = [outcome EXCEPT ![j] = "returned"]
    /\ UNCHANGED <<kind, stop_in_flight, nstops>>

\* (variant: the except path without the cleanup of the running-agent map)
AgentRaiseKeepsAgent(j) ==
    /\ pc[j] = "agent"
    /\ IF kind[j] = "find_trends"
       THEN /\ task_progress' =
                   AppendTo(task_progress, TaskKey(j), Line("error", "Error", 0))
            /\ task_cancelled' = Del(task_cancelled, TaskKey(j))
            /\ UNCHANGED <<resp, running_agents>>
       ELSE /\ resp' = Response("run", NoId, 500)
            /\ UNCHANGED <<task_progress, running_agents, task_cancelled>>
    /\ SetLock(release(LockState))
    /\ pc' = [pc EXCEPT ![j] = "done"]
    /\ outcome' = [outcome EXCEPT ![j] = "raised"]
    /\ UNCHANGED <<task_data, kind, stop_in_flight, nstops>>

\* agent.run() raises: lines 558-566 for a background job; a synchronous
\* request lets the exception leave the handler (HTTP 500).
AgentRaise(j) ==
    /\ pc[j] = "agent"
    /\ IF kind[j] = "find_trends"
       THEN LET k == TaskKey(j) IN
            /\ task_progress' =
                   IF Has(task_progress, k)
                   THEN AppendTo(task_progress, k, Line("error", "Error", 0))
                   ELSE task_progress
            /\ running_agents' = running_agents \ {k}
            /\ task_cancelled' = Del(task_cancelled, k)
            /\ UNCHANGED resp
       ELSE /\ resp' = Response("run", NoId, 500)
            /\ UNCHANGED <<task_progress, running_agents, task_cancelled>>
    /\ SetLock(release(LockState))
    /\ pc' = [pc EXCEPT ![j] = "done"]
    /\ outcome' = [outcome EXCEPT ![j] = "raised"]
    /\ UNCHANGED <<task_data, kind, stop_in_flight, nstops>>

\* ------------------------------------------------------------ POST /run
\* Lines 571-587: a synchronous intent runs its Agent under the lock.
RunSync(j, intent) ==
    /\ pc[j] = "idle"
    /\ kind' = [kind EXCEPT ![j] = intent]
    /\ IF LockFree(LockState)
       THEN /\ SetLock(take(LockState))
            /\ pc' = [pc EXCEPT ![j] = "agent"]
       ELSE /\ SetLock(enqueue(LockState, j))
            /\ pc' = [pc EXCEPT ![j] = "waiting"]
    /\ UNCHANGED <<task_progress, task_data, task_cancelled, running_agents,
                   outcome, stop_in_flight, nstops, resp>>

\* Lines 589-603: find_trends returns a fresh task_id and schedules the job.
RunFindTrends(j) ==
    /\ pc[j] = "idle"
    /\ kind' = [kind EXCEPT ![j] = "find_trends"]
    /\ pc' = [pc EXCEPT ![j] = "scheduled"]
    /\ resp' = [op |-> "run", id |-> NoId, status |-> 200,
                body |-> "started", task_id |-> TaskKey(j)]
    /\ UNCHANGED <<automation_lock, lock_waiters, lock_woken, task_progress,
                   task_data, task_cancelled, running_agents, outcome,
                   stop_in_flight, nstops>>

\* Lines 572-575, 581-584, 590-593: the args fail validation.
RunInvalid ==
    /\ resp' = Response("run", NoId, 400)
    /\ UNCHANGED <<automation_lock, lock_waiters, lock_woken, task_progress,
                   task_data, task_cancelled, running_agents, kind, pc, outcome,
                   stop_in_flight, nstops>>

\* Lines 605-610
RunUnsupported ==
    /\ resp' = [op |-> "run", id |-> NoId, status |-> 200,
                body |-> "unsupported_intent"]
    /\ UNCHANGED <<automation_lock, lock_waiters, lock_woken, task_progress,
                   task_data, task_cancelled, running_agents, kind, pc, outcome,
                   stop_in_flight, nstops>>

\* The intents a request may carry: the three presets and any other string.
RequestIntents == Intents \cup {"other"}

\* (variant: the final else branch treating the intent as find_trends)
run_browser_task_ElseFindTrends(j, intent) ==
    IF intent \in SyncIntents THEN RunSync(j, intent)
    ELSE RunFindTrends(j)

\* Lines 569-610: POST /run dispatches on request.intent.
run_browser_task(j, intent) ==
    IF intent \in SyncIntents THEN RunSync(j, intent)
    ELSE IF intent = "find_trends" THEN RunFindTrends(j)
    ELSE RunUnsupported

\* ------------------------------------------------- GET /progress/{id}
\* Lines 525-536.  The completed flag is startswith("✓") of the last
\* entry; under a "_result" key the last entry may be the payload dict,
\* and the AttributeError leaves the handler as HTTP 500.
completed(log) == Len(log) > 0 /\ startswith_check(Last(log))

progress_response(id) ==
    IF ~Has(task_progress, id)
    THEN Response("progress", id, 404)
    ELSE IF Len(task_progress[id]) > 0 /\ ~IsStr(Last(task_progress[id]))
    THEN Response("progress", id, 500)
    ELSE [op |-> "progress", id |-> id, status |-> 200,
          messages |-> task_progress[id],
          completed |-> completed(task_progress[id])]

get_progress(id) ==
    /\ resp' = progress_response(id)
    /\ UNCHANGED <<automation_lock, lock_waiters, lock_woken, task_progress,
                   task_data, task_cancelled, running_agents, kind, pc, outcome,
                   stop_in_flight, nstops>>

\* --------------------------------------------------- GET /result/{id}
\* (variant: the handler answering with the last entry under the result key)
result_response_ReadsLast(id) ==
    IF ~Has(task_progress, ResultKey(id))
    THEN Response("result", id, 404)
    ELSE [op |-> "result", id |-> id, status |-> 200,
          payload |-> Last(task_progress[ResultKey(id)])]

\* Lines 613-620
result_response(id) ==
    IF ~Has(task_progress, ResultKey(id))
    THEN Response("result", id, 404)
    ELSE [op |-> "result", id |-> id, status |-> 200,
          payload |-> task_progress[ResultKey(id)][1].payload]

get_result(id) ==
    /\ resp' = result_response(id)
    /\ UNCHANGED <<automation_lock, lock_waiters, lock_woken, task_progress,
                   task_data, task_cancelled, running_agents, kind, pc, outcome,
                   stop_in_flight, nstops>>

\* jobs whose Agent call is in flight under the given keys
InFlight(keys) == { j \in Jobs : TaskKey(j) \in keys /\ pc[j] = "agent" }

\* ---------------------------------------------------- POST /stop/{id}
\* (variant: the handler starting the log afresh instead of appending)
StopLogReplaces(log) ==
    << Line("stop", "Stopping automation", 0),
       Line("check", "Automation stopped", 0) >>

\* Lines 629-650 for a known id: what the handler leaves in the log.
StopLog(log) ==
    Append(Append(log, Line("stop", "Stopping automation", 0)),
           Line("check", "Automation stopped", 0))

\* (variant: /stop accepting an id that has no progress log yet)
stop_task_AcceptsUnknown(id) ==
    /\ nstops < MaxStops
    /\ nstops' = nstops + 1
    /\ task_cancelled' = Put(task_cancelled, id, TRUE)
    /\ task_progress' =
           IF Has(task_progress, id)
           THEN [task_progress EXCEPT ![id] = StopLog(@)]
           ELSE task_progress
    /\ running_agents' = running_agents \ {id}
    /\ stop_in_flight' = stop_in_flight \cup InFlight({id})
    /\ resp' = [op |-> "stop", id |-> id, status |-> 200,
                body |-> "stopped", task_id |-> id]
    /\ UNCHANGED <<automation_lock, lock_waiters, lock_woken, task_data,
                   kind, pc, outcome>>

\* Lines 623-656
stop_task(id) ==
    IF ~Has(task_progress, id)
    THEN /\ resp' = Response("stop", id, 404)
         /\ UNCHANGED <<automation_lock, lock_waiters, lock_woken, task_progress,
                        task_data, task_cancelled, running_agents, kind, pc,
                        outcome, stop_in_flight, nstops>>
    ELSE /\ nstops < MaxStops
         /\ nstops' = nstops + 1
         /\ task_cancelled' = Put(task_cancelled, id, TRUE)
         /\ task_progress' = [task_progress EXCEPT ![id] = StopLog(@)]
         /\ running_agents' = running_agents \ {id}
         /\ stop_in_flight' = stop_in_flight \cup InFlight({id})
         /\ resp' = [op |-> "stop", id |-> id, status |-> 200,
                     body |-> "stopped", task_id |-> id]
         /\ UNCHANGED <<automation_lock, lock_waiters, lock_woken, task_data,
                        kind, pc, outcome>>

\* ---------------------------------------------------------- GET /tasks
\* Lines 659-676
list_tasks ==
    /\ resp' = [op |-> "tasks", id |-> NoId, status |-> 200,
                running_count |-> Cardinality(running_agents),
                tasks |-> running_agents]
    /\ UNCHANGED <<automation_lock, lock_waiters, lock_woken, task_progress,
                   task_data, task_cancelled, running_agents, kind, pc, outcome,
                   stop_in_flight, nstops>>

\* (variant: /stop-all rebuilding the flag map from the running tasks only)
stop_all_tasks_DropsFlags ==
    /\ running_agents # {} => nstops < MaxStops
    /\ nstops' = IF running_agents # {} THEN nstops + 1 ELSE nstops
    /\ task_cancelled' = [k \in running_agents |-> TRUE]
    /\ task_progress' =
           [k \in DOMAIN task_progress |->
               IF k \in running_agents THEN StopLog(task_progress[k])
               ELSE task_progress[k]]
    /\ running_agents' = {}
    /\ stop_in_flight' = stop_in_flight \cup InFlight(running_agents)
    /\ resp' = [op |-> "stop-all", id |-> NoId, status |-> 200,
                body |-> "stopped",
                stopped_count |-> Cardinality(running_agents),
                stopped_tasks |-> running_agents]
    /\ UNCHANGED <<automation_lock, lock_waiters, lock_woken, task_data,
                   kind, pc, outcome>>

\* (variant: /stop-all that reports and clears the map without flagging)
stop_all_tasks_NoFlag ==
    /\ running_agents # {} => nstops < MaxStops
    /\ nstops' = IF running_agents # {} THEN nstops + 1 ELSE nstops
    /\ task_progress' =
           [k \in DOMAIN task_progress |->
               IF k \in running_agents THEN StopLog(task_progress[k])
               ELSE task_progress[k]]
    /\ running_agents' = {}
    /\ stop_in_flight' = stop_in_flight \cup InFlight(running_agents)
    /\ resp' = [op |-> "stop-all", id |-> NoId, status |-> 200,
                body |-> "stopped",
                stopped_count |-> Cardinality(running_agents),
                stopped_tasks |-> running_agents]
    /\ UNCHANGED <<automation_lock, lock_waiters, lock_woken, task_data,
                   task_cancelled, kind, pc, outcome>>

\* ------------------------------------------------------ POST /stop-all
\* Lines 679-703
stop_all_tasks ==
    /\ running_agents # {} => nstops < MaxStops
    /\ nstops' = IF running_agents # {} THEN nstops + 1 ELSE nstops
    /\ task_cancelled' =
           [k \in DOMAIN task_cancelled \cup running_agents |->
               IF k \in running_agents THEN TRUE ELSE task_cancelled[k]]
    /\ task_progress' =
           [k \in DOMAIN task_progress |->
               IF k \in running_agents THEN StopLog(task_progress[k])
               ELSE task_progress[k]]
    /\ running_agents' = {}
    /\ stop_in_flight' = stop_in_flight \cup InFlight(running_agents)
    /\ resp' = [op |-> "stop-all", id |-> NoId, status |-> 200,
                body |-> "stopped",
                stopped_count |-> Cardinality(running_agents),
                stopped_tasks |-> running_agents]
    /\ UNCHANGED <<automation_lock, lock_waiters, lock_woken, task_data,
                   kind, pc, outcome>>

Init ==
    /\ automation_lock = FALSE
    /\ lock_waiters = <<>>
    /\ lock_woken = FALSE
    /\ task_progress = <<>>
    /\ task_data = <<>>
    /\ task_cancelled = <<>>
    /\ running_agents = {}
    /\ kind = [j \in Jobs |-> "none"]
    /\ pc = [j \in Jobs |-> "idle"]
    /\ outcome = [j \in Jobs |-> "none"]
    /\ stop_in_flight = {}
    /\ nstops = 0
    /\ resp = Response("none", NoId, 0)


Next ==
    \/ \E j \in Jobs : \E intent \in RequestIntents : run_browser_task(j, intent)
    \/ RunInvalid
    \/ \E j \in Jobs : BackgroundStart(j)
    \/ \E j \in Jobs : LockResume(j)
    \/ \E j \in Jobs : \E r \in AgentResults : AgentReturn(j, r)
    \/ \E j \in Jobs : AgentRaise(j)
    \/ \E id \in Ids : get_progress(id)
    \/ \E id \in Ids : get_result(id)
    \/ \E id \in Ids : stop_task(id)
    \/ list_tasks
    \/ stop_all_tasks

Spec == Init /\ [][Next]_vars

\* A step of some job: a scheduled background job starts, a woken waiter
\* resumes inside acquire(), an Agent call returns or raises.
JobStep ==
    \E j \in Jobs :
        \/ BackgroundStart(j)
        \/ LockResume(j)
        \/ AgentRaise(j)
        \/ \E r \in AgentResults : AgentReturn(j, r)

\* The event loop keeps running ready callbacks and (the assumption of the
\* liveness properties) Agent calls end: while some job can take a step,
\* one of them eventually does.
Fairness == WF_vars(JobStep)

FairSpec == Spec /\ Fairness

\* ================================================================ claims
FindTrends == { j \in Jobs : kind[j] = "find_trends" }
Issued == { TaskKey(j) : j \in FindTrends }
InSection == { j \in Jobs : pc[j] = "agent" }
HasResult(j) == Has(task_progress, ResultKey(TaskKey(j)))

\* C1: in every reachable state at most one job, of any kind, is inside the
\* section guarded by the automation lock (has an Agent call in flight).
C1_MutualExclusion == Cardinality(InSection) <= 1

\* one job's Agent call is in flight while a job of another kind waits
C1_Witness ==
    \E j, k \in Jobs :
        /\ pc[j] = "agent" /\ kind[j] \in SyncIntents
        /\ pc[k] = "waiting" /\ kind[k] = "find_trends"

\* C2: the lock is held only while some Agent call is in flight: every job
\* that has left the section (returned, raised or skipped) has released it,
\* and a free lock with queued jobs has woken the first of them, so a
\* waiting job can still acquire it.
C2_LockReleasedOnExit ==
    /\ automation_lock => InSection # {}
    /\ (~automation_lock /\ lock_waiters # <<>>) => lock_woken

\* a job acquired the lock after another job's Agent call raised
C2_Witness ==
    \E j, k \in Jobs : outcome[j] = "raised" /\ pc[j] = "done" /\ pc[k] = "agent"

\* C3: a task for which /stop or /stop-all was accepted while its Agent call
\* was in flight never has a stored result, whatever the Agent returns, and
\* GET /result for it answers 404.
C3_StoppedInFlightNoResult ==
    \A j \in stop_in_flight :
        /\ ~HasResult(j)
        /\ result_response(TaskKey(j)).status = 404
        /\ (resp.op = "result" /\ resp.id = TaskKey(j)) => resp.status = 404

\* the Agent of a task stopped in flight returned, then its result was asked for
C3_Witness ==
    \E j \in stop_in_flight :
        /\ pc[j] = "done" /\ outcome[j] = "returned"
        /\ resp.op = "result" /\ resp.id = TaskKey(j)

\* C4: a /stop for an issued task that has not started running (scheduled or
\* waiting for the lock) is accepted, the first thing the claim requires of
\* a cancellation before start (the task then ending without the Agent).
C4_EarlyStopAccepted ==
    \A j \in FindTrends :
        (resp.op = "stop" /\ resp.id = TaskKey(j) /\ pc[j] \in {"scheduled", "waiting"})
            => resp.status = 200

\* C5: /progress, /result and /stop answer 404 for every id that /run never
\* returned as a task_id.
C5_UnknownIdNotFound ==
    (resp.op \in {"progress", "result", "stop"} /\ resp.id \notin Issued)
        => resp.status = 404

\* C6: /stop succeeds for every task_id that /run has returned, whatever
\* the task is doing.
C6_StopIssuedSucceeds ==
    (resp.op = "stop" /\ resp.id \in Issued) => resp.status = 200

\* C7: /progress for a task_id that /run has returned answers with a
\* non-empty log, and with completed = false until the run has finished.
C7_ProgressAfterRun ==
    \A j \in FindTrends :
        (resp.op = "progress" /\ resp.id = TaskKey(j)) =>
            /\ resp.status = 200
            /\ Len(resp.messages) > 0
            /\ (pc[j] # "done" => ~resp.completed)

C10_StopFinishedNoOp ==
    [][ (/\ resp'.op = "stop" /\ resp'.status = 200
         /\ nstops' = nstops + 1
         /\ \E j \in FindTrends : resp'.id = TaskKey(j) /\ pc[j] = "done")
        => UNCHANGED <<task_progress, task_data, task_cancelled>> ]_vars

IsPrefix(s, t) == Len(s) <= Len(t) /\ \A i \in 1..Len(s) : s[i] = t[i]

\* C11: every step of the background jobs, /stop and /stop-all keeps each
\* progress log and extends it at its end only: the log read earlier is a
\* prefix of the log read later.
C11_LogAppendOnly ==
    [][ \/ task_progress' = task_progress
        \/ \A k \in DOMAIN task_progress :
               /\ k \in DOMAIN task_progress'
               /\ \/ task_progress'[k] = task_progress[k]
                  \/ IsPrefix(task_progress[k], task_progress'[k]) ]_vars

\* a log that grew by a stop in flight and then by the returned Agent's lines
C11_Witness ==
    \E j \in stop_in_flight :
        /\ pc[j] = "done" /\ outcome[j] = "returned"
        /\ Len(task_progress[TaskKey(j)]) > Len(StartLog) + 2

\* C12: once /progress reports completed = true for a task, it reports
\* completed = true after every later step.
C12_CompletedNeverRegresses ==
    [][ \A j \in FindTrends :
            (Has(task_progress, TaskKey(j)) /\ completed(task_progress[TaskKey(j)]))
                => completed(task_progress'[TaskKey(j)]) ]_vars

\* C13: GET /tasks lists a task exactly when its Agent call is in flight.
C13_TasksAreInFlight ==
    running_agents = { TaskKey(j) : j \in FindTrends \cap InSection }

\* C14: a /stop-all step leaves every task whose Agent call is in flight
\* with its cancellation flag set, reports exactly the ids whose flag it
\* set (the ids listed as running), and with no Agent call in flight it
\* answers 200 with an empty list and changes no task state.
C14_StopAllSignalsRunning ==
    [][ stop_all_tasks =>
          /\ resp'.status = 200
          /\ \A j \in FindTrends : pc'[j] = "agent" => get(task_cancelled', TaskKey(j))
          /\ resp'.stopped_tasks = running_agents
          /\ resp'.stopped_count = Cardinality(resp'.stopped_tasks)
          /\ \A k \in resp'.stopped_tasks : get(task_cancelled', k)
          /\ \A k \in DOMAIN task_cancelled' \ resp'.stopped_tasks :
                 k \in DOMAIN task_cancelled /\ task_cancelled'[k] = task_cancelled[k]
          /\ (FindTrends \cap InSection = {}) =>
                 /\ resp'.stopped_tasks = {} /\ resp'.stopped_count = 0
                 /\ UNCHANGED <<task_progress, task_data, task_cancelled,
                                running_agents, pc>> ]_vars

\* /stop-all answered with the id of a task whose Agent call is in flight
C14_Witness ==
    /\ resp.op = "stop-all" /\ resp.stopped_tasks # {}
    /\ \E j \in FindTrends :
           /\ pc[j] = "agent" /\ TaskKey(j) \in resp.stopped_tasks
           /\ get(task_cancelled, TaskKey(j))

\* C15: a POST /run whose Agent call raises is never answered with an
\* HTTP-level error: only a malformed request gets a non-200 status.
C15_RaiseNotHttpError ==
    resp.op = "run" => resp.status \in {200, 400}

\* C16: a POST /run with an intent outside the three presets answers 200
\* with status unsupported_intent, and leaves the lock, the four maps and
\* every job where they were (no lock taken, no Agent started).
C16_UnsupportedIntentFrame ==
    [][ \A j \in Jobs : \A intent \in RequestIntents \ Intents :
            run_browser_task(j, intent) =>
                /\ resp'.op = "run" /\ resp'.status = 200
                /\ resp'.body = "unsupported_intent"
                /\ UNCHANGED <<automation_lock, lock_waiters, lock_woken,
                               task_progress, task_data, task_cancelled,
                               running_agents, kind, pc>> ]_vars

\* an unsupported request answered while another job holds the lock
C16_Witness ==
    /\ resp.op = "run" /\ resp.status = 200 /\ resp.body = "unsupported_intent"
    /\ automation_lock /\ InSection # {}

\* the status a payload carries for an intent when there is nothing to report
NoResultsOf(intent, status) ==
    \/ intent = "collect_amazon_products" /\ status = "no_products"
    \/ intent = "generate_personas" /\ status = "no_personas"
    \/ intent = "find_trends" /\ status = "no_trends"

\* payload p answers Agent result r of a job of the given intent
PayloadAnswers(intent, r, p) ==
    /\ p.status = "completed" <=> (r.structured /\ Len(r.items) >= 1)
    /\ p.status = "completed" =>
           /\ Len(p.items) = Len(r.items)
           /\ \A i \in 1..Len(r.items) : p.items[i].id = r.items[i].id
    /\ p.status # "completed" =>
           /\ NoResultsOf(intent, p.status)
           /\ p.items = <<>>

\* C17: when an Agent call returns, the payload sent (synchronous request)
\* or stored (background task) has status completed exactly when the
\* structured output has at least one item, and then carries those items in
\* their order; otherwise it has the no-results status of its intent and no
\* items.
C17_PayloadStatus ==
    [][ \A j \in Jobs :
            (pc[j] = "agent" /\ outcome'[j] = "returned") =>
            \A r \in AgentResults :
            AgentReturn(j, r) =>
                IF kind[j] = "find_trends"
                THEN HasResult(j)' =>
                        PayloadAnswers(kind[j], r,
                            task_progress'[ResultKey(TaskKey(j))][1].payload)
                ELSE /\ resp'.status = 200
                     /\ PayloadAnswers(kind[j], r, resp'.payload) ]_vars

\* a synchronous request answered completed with all items, and a task
\* whose stored payload reports no trends
C17_Witness ==
    /\ resp.op = "run" /\ "payload" \in DOMAIN resp
    /\ resp.payload.status = "completed" /\ Len(resp.payload.items) = MaxTrends
    /\ \E j \in FindTrends :
           /\ HasResult(j)
           /\ result_response(TaskKey(j)).payload.status = "no_trends"

\* C18: when the Agent call of a background task raises, the job appends
\* the error line to that task's log (it is then the last line), stores no
\* result, drops the task from the running-agent map, and leaves every
\* other log, the data and the stored results alone.
C18_RaiseRecorded ==
    [][ \A j \in FindTrends :
            AgentRaise(j) =>
                LET k == TaskKey(j) IN
                /\ task_progress'[k] = Append(task_progress[k], Line("error", "Error", 0))
                /\ Last(task_progress'[k]).prefix = "error"
                /\ ~HasResult(j)'
                /\ k \notin running_agents'
                /\ DOMAIN task_progress' = DOMAIN task_progress
                /\ \A x \in DOMAIN task_progress \ {k} :
                       task_progress'[x] = task_progress[x]
                /\ task_data' = task_data
                /\ pc'[j] = "done" ]_vars

\* a task whose Agent raised while another task has a log and a result
C18_Witness ==
    \E j, i \in FindTrends :
        /\ outcome[j] = "raised" /\ pc[j] = "done"
        /\ Last(task_progress[TaskKey(j)]).prefix = "error"
        /\ i # j /\ HasResult(i)

\* C19: /progress reports completed = true for a task only when its Agent
\* call is over and the task has left the lock.
C19_CompletedOnlyWhenDone ==
    \A j \in FindTrends :
        (Has(task_progress, TaskKey(j)) /\ completed(task_progress[TaskKey(j)]))
            => pc[j] = "done"

\* C20 (as stated): a cancellation flag that is set stays set after every
\* step.
C20_FlagWriteOnce ==
    [][ \A k \in DOMAIN task_cancelled :
            task_cancelled[k] => get(task_cancelled', k) ]_vars

\* C20 (amended): a cancellation flag that is set stays set after every
\* step, except that the background job of the task removes its entry when
\* it finishes; it is never reset to false.
C20_FlagSetUntilCleanup ==
    [][ \A k \in DOMAIN task_cancelled :
            task_cancelled[k] =>
                \/ get(task_cancelled', k)
                \/ /\ k \notin DOMAIN task_cancelled'
                   /\ \E j \in FindTrends :
                          k = TaskKey(j) /\ pc[j] = "agent" /\ pc'[j] = "done" ]_vars

\* a task stopped in flight has finished and its flag is gone, while the
\* flag of a task stopped after its end stays
C20_Witness ==
    \/ \E j \in stop_in_flight :
           pc[j] = "done" /\ ~Has(task_cancelled, TaskKey(j))
    \/ \E j \in FindTrends \ stop_in_flight :
           pc[j] = "done" /\ get(task_cancelled, TaskKey(j))

C22_AtMostOneRunning ==
    /\ Cardinality(running_agents) <= 1
    /\ \A k \in running_agents :
           /\ automation_lock
           /\ \E j \in FindTrends : k = TaskKey(j) /\ pc[j] = "agent"
    /\ (resp.op = "tasks" /\ resp.status = 200) => resp.running_count <= 1

\* GET /tasks answered one running task, and the map holds the holder's
\* task while another find_trends job is queued on the lock
C22_Witness ==
    /\ resp.op = "tasks" /\ resp.status = 200 /\ resp.running_count = 1
    /\ running_agents # {}
    /\ \E j \in FindTrends : pc[j] = "waiting"

\* C23: the cancellation flag of a job that has not yet started its Agent
\* run is never set, so the pre-start check finds it false: no job takes the
\* 'Cancelled before start' branch.
C23_NoCancelBeforeStart ==
    \A j \in Jobs :
        /\ outcome[j] # "skipped"
        /\ pc[j] \in {"idle", "scheduled", "waiting"}
               => ~get(task_cancelled, TaskKey(j))

\* a job went on to its Agent run after a /stop for its id was answered 404
\* and another job had finished
C23_Witness ==
    \E j \in FindTrends :
        /\ pc[j] = "agent"
        /\ resp.op = "stop" /\ resp.id = TaskKey(j) /\ resp.status = 404
        /\ \E i \in Jobs : i # j /\ pc[i] = "done"

\* C24: once GET /result/{id} answers a payload for an id, it answers the
\* same payload after every later step, whatever /stop, /stop-all,
\* /progress requests or other jobs do.
C24_ResultWriteOnce ==
    [][ \/ task_progress' = task_progress
        \/ \A id \in Ids :
               result_response(id).status = 200
                   => result_response(id)' = result_response(id) ]_vars

\* GET /result answered the payload of a task after a /stop on the key that
\* holds the stored result had appended its lines there
C24_Witness ==
    \E j \in FindTrends :
        /\ HasResult(j)
        /\ Len(task_progress[ResultKey(TaskKey(j))]) > 1
        /\ resp = result_response(TaskKey(j))

====
